---- MODULE Spec2Model ----
(***************************************************************************)
(* FocusMate: the popup's live preview (source/pop_window.jsx and its      *)
(* later revision, the main App component) and the content script          *)
(* (source/content.js).                                                    *)
(*                                                                         *)
(* Strings are sequences of one-character strings.  Lengths in em are kept *)
(* in hundredths (0.1em = 10), font sizes in px.                           *)
(***************************************************************************)
EXTENDS Integers, Sequences, FiniteSets, TLC

VARIABLES
    build,        \* which App source renders the preview
    config,       \* the configuration object (dpref.json or FALLBACK_CONFIG)
    prefs,        \* the popup's prefs state
    sample,       \* the text handed to processedSampleText
    segments,     \* sample.split(/(\s+)/)
    rendered,     \* the value of processedSampleText
    previewStyle, \* the style object of the preview <section>/<div>
    phase,        \* position of the preview run
    storage,      \* focusMatePrefs in chrome.storage.sync
    served,       \* document.body as the page is served (what a reload restores)
    head,         \* the <style> elements of document.head
    body,         \* document.body
    pagePrefs,    \* the prefs the content script works with
    threw,        \* has the content script thrown?
    pc,           \* position of the content script
    passes,       \* number of runs over the document: of processPageText, and
                  \* in StyleSpec of applyGlobalStyles
    request,      \* the message the onMessage listener last received
    detached,     \* the collected text nodes (by their place in textNodes) that
                  \* the page takes out of the document before their turn
    arrays,       \* the popup's heap: the arrays, by address
    objects,      \* the popup's heap: the prefs objects, whose lists are addresses
    prefsRef,     \* the address of the object that the prefs state is
    popup,        \* position of the popup's loadConfig, and the result of its
                  \* chrome.storage.sync.get
    saves,        \* the savePrefs calls of the popup, oldest first: the prefs, whether
                  \* chrome.storage.sync.set has written them, whether the message is sent
    inbox,        \* the updateStyles messages on their way to the tab
    trigger       \* the save whose message made the page reload (0: none yet)

vars == <<build, config, prefs, sample, segments, rendered, previewStyle, phase,
          storage, served, head, body, pagePrefs, threw, pc, passes, request,
          detached, arrays, objects, prefsRef, popup, saves, inbox, trigger>>

pageVars == <<storage, served, head, body, pagePrefs, threw, pc, passes, request, detached>>

previewVars == <<sample, segments, rendered, previewStyle, phase>>

heapVars == <<arrays, objects, prefsRef>>

extVars == <<popup, saves, inbox, trigger>>

(***************************************************************************)
(* Bounds                                                                  *)
(***************************************************************************)
MaxLen == 3
MaxChildren == 2
MaxPasses == 2
MaxObjects == 3
MaxCalls == 3
MaxSaves == 2

(***************************************************************************)
(* JavaScript values                                                       *)
(***************************************************************************)
Undefined == "undefined"
TypeError == "TypeError"

\* a || b
Or(a, b) == IF a \in {Undefined, ""} THEN b ELSE a

\* The characters of the model: a vowel in no default group, a vowel in a
\* group, a lower-case and an upper-case group member, and whitespace.
Alphabet == {"a", "e", "b", "D", " "}

isWhitespace(c) == c = " "

toLowerCase(c) == IF c = "D" THEN "d" ELSE c

RECURSIVE Strings(_, _)
Strings(alphabet, n) ==
    IF n = 0 THEN {<<>>}
    ELSE LET shorter == Strings(alphabet, n - 1)
         IN  shorter \cup {Append(s, c) : s \in {t \in shorter : Len(t) = n - 1}, c \in alphabet}

includes(list, x) == \E i \in 1..Len(list) : list[i] = x

RECURSIVE Concat(_)
Concat(parts) ==
    IF parts = <<>> THEN <<>> ELSE Head(parts) \o Concat(Tail(parts))

slice(s, from, to) == SubSeq(s, from + 1, to)

(***************************************************************************)
(* String.prototype.split(/(\s+)/): the separator's capture is kept.       *)
(***************************************************************************)
\* End (exclusive, 0-based) of the match of \s+ at position q, or -1.
RECURSIVE matchWhitespace(_, _)
matchWhitespace(s, q) ==
    IF q < Len(s) /\ isWhitespace(s[q + 1])
    THEN LET e == matchWhitespace(s, q + 1) IN IF e = -1 THEN q + 1 ELSE e
    ELSE -1

RECURSIVE splitFromNoCapture(_, _, _)
splitFromNoCapture(s, p, q) ==
    IF q >= Len(s) THEN <<slice(s, p, Len(s))>>
    ELSE LET e == matchWhitespace(s, q)
         IN  IF e = -1 \/ e = p
             THEN splitFromNoCapture(s, p, q + 1)
             ELSE <<slice(s, p, q)>> \o splitFromNoCapture(s, e, e)

RECURSIVE splitFrom(_, _, _)
splitFrom(s, p, q) ==
    IF q >= Len(s) THEN <<slice(s, p, Len(s))>>
    ELSE LET e == matchWhitespace(s, q)
         IN  IF e = -1 \/ e = p
             THEN splitFrom(s, p, q + 1)
             ELSE <<slice(s, p, q), slice(s, q, e)>> \o splitFrom(s, e, e)

splitNoCapture(s) == splitFromNoCapture(s, 0, 0)

split(s) == IF Len(s) = 0 THEN <<s>> ELSE splitFrom(s, 0, 0)

(***************************************************************************)
(* Objects.  A JS object is a function from its keys; an object whose key  *)
(* order matters (Object.entries) is a sequence of [key, value] entries,   *)
(* wrapped with "defined" so that a missing table can be told apart.       *)
(***************************************************************************)
\* obj[key]
Lookup(obj, key) == IF key \in DOMAIN obj THEN obj[key] ELSE Undefined

\* Does groups[key] hold a letter list?
hasEntry(groups, key) == \E i \in 1..Len(groups.entries) : groups.entries[i].key = key

\* groups[key], for a key that has a letter list.
entryOf(groups, key) ==
    groups.entries[CHOOSE i \in 1..Len(groups.entries) : groups.entries[i].key = key].chars

PopupCOLOR_VALUES ==
    "soft-cream" :> "#FEF9E7" @@ "off-white" :> "#FAF9F6" @@ "pastel-yellow" :> "#FFEE8C" @@
    "light-blue" :> "#EBF5FB" @@ "light-peach" :> "#FDF2E9" @@ "black" :> "#1A1A1A" @@
    "dark-blue" :> "#00008B" @@ "dark-brown" :> "#5D4037" @@ "muted-green" :> "#2D6A4F" @@
    "warm-brown" :> "#A44A3F" @@ "soft-purple" :> "#6D597A" @@ "soft-blue" :> "#4E9FD1"

ContentCOLOR_VALUES ==
    "soft-cream" :> "#F5F5DC" @@ "off-white" :> "#FAF9F6" @@ "pastel-yellow" :> "#FEF9E7" @@
    "light-blue" :> "#EBF5FB" @@ "light-peach" :> "#FDF2E9" @@ "muted-green" :> "#556B2F" @@
    "warm-brown" :> "#8B4513" @@ "soft-blue" :> "#4682B4" @@ "soft-purple" :> "#9370DB" @@
    "black" :> "#1A1A1A" @@ "dark-blue" :> "#00008B" @@ "dark-brown" :> "#5D4037"

FALLBACK_CONFIG == [
    font_size        |-> [min |-> 12,  recommended |-> 16,  max |-> 26],
    letter_spacing   |-> [min |-> 0,   recommended |-> 10,  max |-> 50],
    word_spacing     |-> [min |-> 0,   recommended |-> 20,  max |-> 100],
    line_spacing     |-> [min |-> 100, recommended |-> 150, max |-> 300],
    background_color |-> <<"soft-cream", "off-white", "pastel-yellow", "light-blue", "light-peach">>,
    foreground_color |-> <<"black", "dark-blue", "dark-brown">>,
    default_highlight_colors |->
        ("vowels" :> "soft-blue" @@ "mirror_letters1" :> "muted-green" @@
         "mirror_letters2" :> "warm-brown" @@ "similar_shapes1" :> "soft-purple" @@
         "similar_shapes2" :> "soft-blue" @@ "similar_shapes3" :> "muted-green" @@
         "thin_vertical1" :> "warm-brown" @@ "thin_vertical2" :> "soft-purple" @@
         "tail_letters" :> "soft-blue" @@ "similar_numbers" :> "muted-green"),
    confusing_letter_groups |-> [defined |-> TRUE, entries |-> <<
        [key |-> "mirror_letters1", chars |-> <<"b", "d">>],
        [key |-> "mirror_letters2", chars |-> <<"p", "q">>],
        [key |-> "similar_shapes1", chars |-> <<"m", "n">>],
        [key |-> "similar_shapes2", chars |-> <<"o", "u">>],
        [key |-> "similar_shapes3", chars |-> <<"c", "e">>],
        [key |-> "thin_vertical1",  chars |-> <<"i", "j">>],
        [key |-> "thin_vertical2",  chars |-> <<"l", "t">>],
        [key |-> "tail_letters",    chars |-> <<"g", "y">>],
        [key |-> "similar_numbers", chars |-> <<"6", "9">> ] >>],
    user_preferences |-> [
        font |-> "Open Sans", font_size |-> 16, line_spacing |-> 150,
        letter_spacing |-> 10, word_spacing |-> 20,
        background_color |-> "soft-cream", text_color |-> "black",
        active_modes |-> <<"bold_starts">>,
        active_letter_groups |-> <<"mirror_letters1">> ] ]

\* dpref.json is fetched at run time and is not part of the sources: two
\* further configurations it may hold.  In the first the groups overlap
\* (similar_shapes3 is listed first and shares "d" with mirror_letters1), a group
\* names a colour the palettes do not hold and no vowel colour is given.
DPREF_OVERLAP == [FALLBACK_CONFIG EXCEPT
    !.default_highlight_colors =
        ("mirror_letters1" :> "muted-green" @@ "similar_shapes3" :> "unknown-color"),
    !.confusing_letter_groups = [defined |-> TRUE, entries |-> <<
        [key |-> "similar_shapes3", chars |-> <<"d", "e">>],
        [key |-> "mirror_letters1", chars |-> <<"b", "d">>] >>] ]

\* In the second the group table is missing.
DPREF_NO_GROUPS == [FALLBACK_CONFIG EXCEPT
    !.confusing_letter_groups = [defined |-> FALSE, entries |-> <<>>] ]

Configs == {FALLBACK_CONFIG, DPREF_OVERLAP, DPREF_NO_GROUPS}

Builds == {"source/pop_window.jsx", "unnamed/part_000"}

(***************************************************************************)
(* processedSampleText (the popup's live preview)                          *)
(***************************************************************************)
\* The for-loop of processChars over activeGroups: the key of the first
\* active group whose letter list includes the character, "" when none does,
\* TypeError when groups[key].includes is reached on an undefined value.
\* The later revision of the component reads groups[key]?.includes(lower).
RECURSIVE groupKeyIgnoringOrder(_, _, _, _)
groupKeyIgnoringOrder(b, groups, activeGroups, lower) ==
    IF activeGroups = <<>> THEN ""
    ELSE LET key  == activeGroups[Len(activeGroups)]
             rest == SubSeq(activeGroups, 1, Len(activeGroups) - 1)
         IN  IF ~groups.defined THEN TypeError
             ELSE IF ~hasEntry(groups, key)
                  THEN IF b = "unnamed/part_000"
                       THEN groupKeyIgnoringOrder(b, groups, rest, lower)
                       ELSE TypeError
             ELSE IF includes(entryOf(groups, key), lower) THEN key
             ELSE groupKeyIgnoringOrder(b, groups, rest, lower)

RECURSIVE findGroupKey(_, _, _, _)
findGroupKey(b, groups, activeGroups, lower) ==
    IF activeGroups = <<>> THEN ""
    ELSE LET key == Head(activeGroups)
         IN  IF ~groups.defined THEN TypeError
             ELSE IF ~hasEntry(groups, key)
                  THEN IF b = "unnamed/part_000"
                       THEN findGroupKey(b, groups, Tail(activeGroups), lower)
                       ELSE TypeError
             ELSE IF includes(entryOf(groups, key), lower) THEN key
             ELSE findGroupKey(b, groups, Tail(activeGroups), lower)

vowelColorOf(cfg) ==
    Or(Lookup(PopupCOLOR_VALUES, Lookup(cfg.default_highlight_colors, "vowels")),
       PopupCOLOR_VALUES["soft-blue"])

\* One character of processChars: the element it is rendered as.
vowelFirstChar(b, cfg, p, char) ==
    LET lower    == toLowerCase(char)
        groupKey == findGroupKey(b, cfg.confusing_letter_groups, p.active_letter_groups, lower)
        isVowel  == includes(p.active_modes, "vowel_coloring")
                    /\ includes(<<"a", "e", "i", "o", "u">>, lower)
    IN  IF groupKey = TypeError THEN [char |-> char, kind |-> TypeError, key |-> "", color |-> ""]
        ELSE IF isVowel
        THEN [char |-> char, kind |-> "vowel", key |-> "", color |-> vowelColorOf(cfg)]
        ELSE IF groupKey # ""
        THEN [char |-> char, kind |-> "group", key |-> groupKey,
              color |-> Or(Lookup(PopupCOLOR_VALUES,
                                  Lookup(cfg.default_highlight_colors, groupKey)), "#2563eb")]
        ELSE [char |-> char, kind |-> "plain", key |-> "", color |-> ""]

processChar(b, cfg, p, char) ==
    LET lower    == toLowerCase(char)
        groupKey == findGroupKey(b, cfg.confusing_letter_groups, p.active_letter_groups, lower)
        isVowel  == includes(p.active_modes, "vowel_coloring")
                    /\ includes(<<"a", "e", "i", "o", "u">>, lower)
    IN  IF groupKey = TypeError THEN [char |-> char, kind |-> TypeError, key |-> "", color |-> ""]
        ELSE IF groupKey # ""
        THEN [char |-> char, kind |-> "group", key |-> groupKey,
              color |-> Or(Lookup(PopupCOLOR_VALUES,
                                  Lookup(cfg.default_highlight_colors, groupKey)), "#2563eb")]
        ELSE IF isVowel
        THEN [char |-> char, kind |-> "vowel", key |-> "", color |-> vowelColorOf(cfg)]
        ELSE [char |-> char, kind |-> "plain", key |-> "", color |-> ""]

\* processChars that leaves the characters of the bold part unclassified.
processCharsBoldOnly(b, cfg, p, segment, isBold) ==
    [tag   |-> IF isBold THEN "b" ELSE "span",
     chars |-> [i \in 1..Len(segment) |->
                   IF isBold
                   THEN [char |-> segment[i], kind |-> "plain", key |-> "", color |-> ""]
                   ELSE processChar(b, cfg, p, segment[i])]]

\* processChars(segment, isBold): <b> or <span> around the characters' elements.
processChars(b, cfg, p, segment, isBold) ==
    [tag   |-> IF isBold THEN "b" ELSE "span",
     chars |-> [i \in 1..Len(segment) |-> processChar(b, cfg, p, segment[i])]]

\* Math.ceil(n / 2)
floorHalf(n) == n \div 2

ceilHalf(n) == (n + 1) \div 2

\* /^\s$/ in its place: one whitespace character only.
isSingleWhitespace(word) == Len(word) = 1 /\ isWhitespace(word[1])

\* /^\s+$/.test(word)
isWhitespaceRun(word) == Len(word) > 0 /\ \A i \in 1..Len(word) : isWhitespace(word[i])

\* The callback of sample.split(/(\s+)/).map: whitespace is returned as it
\* is, a word becomes a <span> of one or two processChars parts.
renderWord(b, cfg, p, word) ==
    IF isWhitespaceRun(word) THEN [ws |-> TRUE, text |-> word, parts |-> <<>>]
    ELSE IF includes(p.active_modes, "bold_starts") /\ Len(word) > 1
    THEN LET mid == ceilHalf(Len(word))
         IN  [ws |-> FALSE, text |-> <<>>,
              parts |-> << processChars(b, cfg, p, slice(word, 0, mid), TRUE),
                           processChars(b, cfg, p, slice(word, mid, Len(word)), FALSE) >>]
    ELSE [ws |-> FALSE, text |-> <<>>, parts |-> << processChars(b, cfg, p, word, FALSE) >>]

unitThrew(unit) ==
    \E i \in 1..Len(unit.parts) :
        \E j \in 1..Len(unit.parts[i].chars) : unit.parts[i].chars[j].kind = TypeError

\* The value of the useMemo: the units, or the TypeError that left the map.
processedSampleText(b, cfg, p, text) ==
    LET words == split(text)
        units == [i \in 1..Len(words) |-> renderWord(b, cfg, p, words[i])]
    IN  IF \E i \in 1..Len(units) : unitThrew(units[i])
        THEN [threw |-> TRUE, units |-> <<>>]
        ELSE [threw |-> FALSE, units |-> units]

\* The style objects of the preview <section> and of its text <div>.
previewStyleOf(p) ==
    [backgroundColor |-> Or(Lookup(PopupCOLOR_VALUES, p.background_color), "#FFFFFF"),
     color           |-> Or(Lookup(PopupCOLOR_VALUES, p.text_color), "#000000"),
     fontFamily      |-> p.font,
     fontSize        |-> p.font_size,
     lineHeight      |-> p.line_spacing,
     letterSpacing   |-> p.letter_spacing,
     wordSpacing     |-> p.word_spacing]

(***************************************************************************)
(* The preview as a function of its inputs: the inputs are drawn, then     *)
(* the component renders.                                                  *)
(***************************************************************************)
\* Duplicate-free lists over a set of keys (toggleList keeps lists so).
RECURSIVE Orders(_)
Orders(keys) ==
    {<<>>} \cup UNION {{<<k>> \o rest : rest \in Orders(keys \ {k})} : k \in keys}

ModeLists == Orders({"bold_starts", "vowel_coloring"})

\* Stored activation orders: two configured groups and a key that no
\* configuration lists.
ActivationOrders == Orders({"mirror_letters1", "similar_shapes3", "ghost_group"})

NoRender == [threw |-> FALSE, units |-> <<>>]

NothingStored == [defined |-> FALSE, value |-> FALLBACK_CONFIG.user_preferences]

\* A prefs object on the heap: its two lists are the arrays at the given
\* addresses.
ArraysOf(p) == <<p.active_modes, p.active_letter_groups>>

ObjectOf(p, modes, groups) ==
    [p EXCEPT !.active_modes = modes, !.active_letter_groups = groups]

\* The value of the object at an address.
ValueOf(heap, objs, ref) ==
    [objs[ref] EXCEPT !.active_modes = heap[@], !.active_letter_groups = heap[@]]

\* The message of savePrefs, and the listener's state before any message.
updateStyles(newPrefs) == [action |-> "updateStyles", prefs |-> newPrefs]

NoRequest == [action |-> "", prefs |-> FALLBACK_CONFIG.user_preferences]

\* The popup after loadConfig's storage callback.
PopupReady == [at |-> "ready", result |-> NothingStored]

EmptyBody ==
    [nodeType |-> "element", tagName |-> "BODY", className |-> "", data |-> <<>>,
     childNodes |-> <<>>]

RenderInit ==
    /\ build \in Builds
    /\ config \in Configs
    /\ \E modes \in ModeLists, order \in ActivationOrders :
           prefs = [config.user_preferences EXCEPT
                       !.active_modes = modes, !.active_letter_groups = order]
    /\ sample \in Strings(Alphabet, MaxLen)
    /\ segments = <<>>
    /\ rendered = NoRender
    /\ previewStyle = previewStyleOf(prefs)
    /\ phase = "input"
    /\ storage = NothingStored
    /\ served = EmptyBody
    /\ head = <<>>
    /\ body = EmptyBody
    /\ pagePrefs = prefs
    /\ threw = FALSE
    /\ pc = "start"
    /\ passes = 0
    /\ request = NoRequest
    /\ detached = {}
    /\ arrays = ArraysOf(prefs)
    /\ objects = <<ObjectOf(prefs, 1, 2)>>
    /\ prefsRef = 1
    /\ popup = PopupReady
    /\ saves = <<>>
    /\ inbox = <<>>
    /\ trigger = 0

RenderPreview ==
    /\ phase = "input"
    /\ segments' = split(sample)
    /\ rendered' = processedSampleText(build, config, prefs, sample)
    /\ previewStyle' = previewStyleOf(prefs)
    /\ phase' = "rendered"
    /\ UNCHANGED <<build, config, prefs, sample>>
    /\ UNCHANGED pageVars
    /\ UNCHANGED heapVars
    /\ UNCHANGED extVars

RenderNext == RenderPreview

RenderSpec == RenderInit /\ [][RenderNext]_vars

(***************************************************************************)
(* Claims about the preview                                                *)
(***************************************************************************)
Rendered == phase = "rendered"

\* The character elements of a render, whatever part they are in.
ElementsOf(r) ==
    UNION {UNION {{r.units[i].parts[j].chars[k] : k \in 1..Len(r.units[i].parts[j].chars)}
                  : j \in 1..Len(r.units[i].parts)}
           : i \in 1..Len(r.units)}

\* The i-th key of the activation order has a letter list that holds c.
Lists(cfg, order, i, c) ==
    /\ cfg.confusing_letter_groups.defined
    /\ hasEntry(cfg.confusing_letter_groups, order[i])
    /\ includes(entryOf(cfg.confusing_letter_groups, order[i]), c)

EveryActiveKeyHasList ==
    \A i \in 1..Len(prefs.active_letter_groups) :
        /\ config.confusing_letter_groups.defined
        /\ hasEntry(config.confusing_letter_groups, prefs.active_letter_groups[i])

\* C1: the units of sample.split(/(\s+)/), concatenated in order, are the
\* sample itself.
C1_LosslessSegmentation ==
    Rendered => Concat(segments) = sample

C1_Witness ==
    /\ Rendered
    /\ sample = <<"b", " ", "D">>
    /\ segments = << <<"b">>, <<" ">>, <<"D">> >>

\* C2: in every render that returns, a character is tagged with the first
\* key of the activation order whose letter list holds its lower-cased form,
\* and with no group when no key of the order lists it; a render returns
\* whenever every active key has a letter list.
C2_PriorityCorrectness ==
    Rendered =>
        /\ EveryActiveKeyHasList => ~rendered.threw
        /\ ~rendered.threw =>
             \A el \in ElementsOf(rendered) :
                LET order == prefs.active_letter_groups
                    hits  == {i \in 1..Len(order) : Lists(config, order, i, toLowerCase(el.char))}
                IN  IF hits = {}
                    THEN el.kind # "group" /\ el.key = ""
                    ELSE /\ el.kind = "group"
                         /\ el.key = order[CHOOSE i \in hits : \A j \in hits : i <= j]

\* "D" is in both groups of the overlapping configuration, which lists
\* similar_shapes3 first; the activation order puts mirror_letters1 first.
C2_Witness ==
    /\ Rendered
    /\ config = DPREF_OVERLAP
    /\ prefs.active_letter_groups = <<"mirror_letters1", "similar_shapes3">>
    /\ ~rendered.threw
    /\ \E el \in ElementsOf(rendered) : el.char = "D" /\ el.key = "mirror_letters1"

\* C3: a character is rendered as a vowel exactly when no active group
\* matched it, vowel_coloring is among the active modes and its lower-cased
\* form is one of a, e, i, o, u; the render is the same with the active
\* modes listed in the opposite order.
ReverseOf(list) == [i \in 1..Len(list) |-> list[Len(list) + 1 - i]]

C3_VowelGroupIndependence ==
    Rendered =>
        /\ rendered = processedSampleText(build, config,
                         [prefs EXCEPT !.active_modes = ReverseOf(prefs.active_modes)], sample)
        /\ \A el \in ElementsOf(rendered) :
              LET order == prefs.active_letter_groups
                  c     == toLowerCase(el.char)
              IN  el.kind = "vowel" <=>
                     /\ ~\E i \in 1..Len(order) : Lists(config, order, i, c)
                     /\ \E m \in 1..Len(prefs.active_modes) : prefs.active_modes[m] = "vowel_coloring"
                     /\ c \in {"a", "e", "i", "o", "u"}

\* With vowel colouring listed after bold starts, "e" is taken by its group
\* and "a" is coloured as a vowel in the same render.
C3_Witness ==
    /\ Rendered
    /\ prefs.active_modes = <<"bold_starts", "vowel_coloring">>
    /\ \E el \in ElementsOf(rendered) : el.char = "e" /\ el.kind = "group"
    /\ \E el \in ElementsOf(rendered) : el.char = "a" /\ el.kind = "vowel"

\* C4: a word of n > 1 characters rendered with bold_starts active has its
\* first ceil(n/2) characters in the <b> part and the rest in the <span>
\* part; otherwise the word is one <span> part and nothing is bold.
C4_AnchorSplitBoundary ==
    (Rendered /\ ~rendered.threw) =>
        \A i \in 1..Len(rendered.units) :
            LET unit == rendered.units[i]
                word == segments[i]
                n    == Len(word)
                text(part) == [k \in 1..Len(part.chars) |-> part.chars[k].char]
            IN  ~unit.ws =>
                  IF (\E m \in 1..Len(prefs.active_modes) : prefs.active_modes[m] = "bold_starts")
                     /\ n > 1
                  THEN /\ Len(unit.parts) = 2
                       /\ unit.parts[1].tag = "b" /\ unit.parts[2].tag = "span"
                       /\ 2 * Len(unit.parts[1].chars) \in {n, n + 1}
                       /\ text(unit.parts[1]) \o text(unit.parts[2]) = word
                  ELSE /\ Len(unit.parts) = 1
                       /\ unit.parts[1].tag = "span"
                       /\ text(unit.parts[1]) = word

C4_Witness ==
    /\ Rendered
    /\ ~rendered.threw
    /\ Len(sample) = 3
    /\ Len(rendered.units) = 1
    /\ Len(rendered.units[1].parts) = 2
    /\ Len(rendered.units[1].parts[1].chars) = 2
    /\ Len(rendered.units[1].parts[2].chars) = 1

\* C9: with an active key that has no letter list, or with the group table
\* missing, the render does not throw and is the render of the activation
\* order without the keys that have no list.
RECURSIVE WithoutUnlisted(_, _)
WithoutUnlisted(cfg, order) ==
    IF order = <<>> THEN <<>>
    ELSE IF cfg.confusing_letter_groups.defined
            /\ hasEntry(cfg.confusing_letter_groups, Head(order))
         THEN <<Head(order)>> \o WithoutUnlisted(cfg, Tail(order))
         ELSE WithoutUnlisted(cfg, Tail(order))

C9_GracefulDegradation ==
    Rendered =>
        /\ ~rendered.threw
        /\ rendered = processedSampleText(build, config,
                         [prefs EXCEPT !.active_letter_groups =
                             WithoutUnlisted(config, prefs.active_letter_groups)], sample)

(***************************************************************************)
(* The document of the content script.  A node is a record; a text node    *)
(* has data, an element has a tagName, a className and childNodes.         *)
(***************************************************************************)
TextNode(data) ==
    [nodeType |-> "text", tagName |-> "", className |-> "", data |-> data, childNodes |-> <<>>]

Element(tagName, className, childNodes) ==
    [nodeType |-> "element", tagName |-> tagName, className |-> className,
     data |-> <<>>, childNodes |-> childNodes]

\* tagName.toLowerCase(), for the tag names of the model.
tagToLowerCase(tagName) ==
    CASE tagName = "BODY" -> "body"
      [] tagName = "P" -> "p"
      [] tagName = "SPAN" -> "span"
      [] tagName = "NOSCRIPT" -> "noscript"
      [] tagName = "SCRIPT" -> "script"
      [] OTHER -> tagName

\* textContent.trim(), as a truth value: is anything left?
trimIsNonEmpty(data) == \E i \in 1..Len(data) : ~isWhitespace(data[i])

\* acceptNode of the TreeWalker: the tag is that of node.parentElement.
acceptNode(parentTag, data) ==
    IF tagToLowerCase(parentTag) \in {"script", "style", "textarea", "input", "noscript"}
    THEN FALSE
    ELSE trimIsNonEmpty(data)

\* Object.values(groups).flat()
RECURSIVE flatValues(_)
flatValues(entries) ==
    IF entries = <<>> THEN <<>> ELSE Head(entries).chars \o flatValues(Tail(entries))

\* The character class of letterRegex, with the i flag.
classMatches(letters, c) ==
    \E i \in 1..Len(letters) : toLowerCase(letters[i]) = toLowerCase(c)

\* letterRegex.test(segment) of a global regex whose lastIndex is li: the
\* result and the lastIndex it leaves.
regexTest(letters, segment, li) ==
    LET found == {i \in li..(Len(segment) - 1) : classMatches(letters, segment[i + 1])}
    IN  IF li > Len(segment) \/ found = {}
        THEN [result |-> FALSE, lastIndex |-> 0]
        ELSE [result |-> TRUE,
              lastIndex |-> (CHOOSE i \in found : \A j \in found : i <= j) + 1]

\* replace() that leaves the lastIndex that test() has set.
replaceKeepsLastIndex(li) == li

\* The lastIndex of letterRegex after segment.replace(letterRegex, ...):
\* replace() of a global regex sets it to 0 before its first match and
\* leaves it at 0 after its last.
replaceLastIndex(li) == 0

\* The callback of segment.replace(letterRegex, ...): the first group, in
\* the order of Object.entries(groups), whose letters include the match.
RECURSIVE replaceGroupKey(_, _)
replaceGroupKey(entries, char) ==
    IF entries = <<>> THEN ""
    ELSE IF includes(Head(entries).chars, char) THEN Head(entries).key
    ELSE replaceGroupKey(Tail(entries), char)

\* The string given to innerHTML, as a sequence of items: a character of
\* the segment, or the span markup the callback returns for a match.
replaceHTML(groups, letters, segment) ==
    [i \in 1..Len(segment) |->
        LET match    == segment[i]
            groupKey == IF classMatches(letters, match)
                        THEN replaceGroupKey(groups.entries, toLowerCase(match))
                        ELSE ""
        IN  [char |-> match, groupKey |-> groupKey]]

\* The letters of the page alphabet, and the upper case that tagName gives
\* the name of an element.
isAsciiAlpha(c) == c \in {"a", "e", "b", "D"}

toUpperCase(c) ==
    CASE c = "a" -> "A"
      [] c = "e" -> "E"
      [] c = "b" -> "B"
      [] OTHER -> c

\* The nodes the parser makes of that string.  In the data state a run of
\* characters is one text node and a span markup one element with its
\* character as text; a "<" of the segment that a letter follows opens a
\* start tag.  In the tag name state the characters of the segment, and
\* the "<span" of the next markup, go into the name; the markup's class
\* attribute and ">" complete the tag, its "</span>" closes nothing, and the
\* rest of the string is parsed into the element.  A tag that the string
\* ends in is dropped.  (The segments of the model hold no "&", ">" or "/".)
RECURSIVE parseHTML(_, _)
RECURSIVE parseTagName(_, _)
parseTagName(items, name) ==
    IF items = <<>> THEN <<>>
    ELSE LET item == Head(items)
         IN  IF item.groupKey = ""
             THEN parseTagName(Tail(items), name \o toUpperCase(item.char))
             ELSE <<Element(name \o "<SPAN", "focusmate-" \o item.groupKey,
                            parseHTML(Tail(items), <<item.char>>))>>

parseHTML(items, run) ==
    LET text == IF run = <<>> THEN <<>> ELSE <<TextNode(run)>>
    IN  IF items = <<>> THEN text
        ELSE LET item == Head(items)
             IN  IF item.groupKey # ""
                 THEN text
                      \o <<Element("SPAN", "focusmate-" \o item.groupKey,
                                   <<TextNode(<<item.char>>)>>)>>
                      \o parseHTML(Tail(items), <<>>)
                 ELSE IF /\ item.char = "<"
                         /\ Len(items) > 1
                         /\ items[2].groupKey = ""
                         /\ isAsciiAlpha(items[2].char)
                      THEN text \o parseTagName(Tail(items), "")
                      ELSE parseHTML(Tail(items), Append(run, item.char))

\* /\s+/.test(segment)
hasWhitespace(segment) == \E i \in 1..Len(segment) : isWhitespace(segment[i])

\* segments.forEach: the nodes appended to the fragment for the segments
\* from the i-th on, and the lastIndex letterRegex is left with.
RECURSIVE fragmentOf(_, _, _, _, _)
fragmentOf(groups, letters, segs, i, li) ==
    IF i > Len(segs) THEN [nodes |-> <<>>, lastIndex |-> li]
    ELSE LET segment == segs[i]
         IN  IF hasWhitespace(segment)
             THEN LET rest == fragmentOf(groups, letters, segs, i + 1, li)
                  IN  [nodes |-> <<TextNode(segment)>> \o rest.nodes, lastIndex |-> rest.lastIndex]
             ELSE LET t == regexTest(letters, segment, li)
                  IN  IF t.result
                      THEN \* replace() of a global regex starts and ends at lastIndex 0
                           LET wordSpan == Element("SPAN", "",
                                              parseHTML(replaceHTML(groups, letters, segment), <<>>))
                               rest == fragmentOf(groups, letters, segs, i + 1,
                                              replaceLastIndex(t.lastIndex))
                           IN  [nodes |-> <<wordSpan>> \o rest.nodes, lastIndex |-> rest.lastIndex]
                      ELSE LET rest == fragmentOf(groups, letters, segs, i + 1, t.lastIndex)
                           IN  [nodes |-> <<TextNode(segment)>> \o rest.nodes,
                                lastIndex |-> rest.lastIndex]

\* if (node.parentNode) ... at the turn of a collected node: a node that
\* is in the document is replaced, one that is not is skipped.
replaceWithoutGuard(isDetached) == IF isDetached THEN TypeError ELSE "replace"

replaceOutcome(isDetached) == IF isDetached THEN "skip" ELSE "replace"

\* The state of the pass before its first node.
StartOfWalk(detachedNodes) ==
    [lastIndex |-> 0, collected |-> 0, detached |-> detachedNodes, threw |-> FALSE]

\* textNodes.forEach over the text nodes the walker accepted, in document
\* order: each is replaced, in its parent, by its fragment.  walk holds the
\* lastIndex of letterRegex, the number of collected nodes so far, the
\* nodes that are out of the document at their turn, and whether an
\* exception has ended the forEach (the nodes after it stay as they are).
RECURSIVE replaceTextNodes(_, _, _, _, _)
replaceTextNodes(groups, letters, parentTag, children, walk) ==
    IF children = <<>> THEN [nodes |-> <<>>, walk |-> walk]
    ELSE LET node == Head(children)
         IN  IF node.nodeType = "text"
             THEN IF acceptNode(parentTag, node.data)
                  THEN LET k       == walk.collected + 1
                           f       == fragmentOf(groups, letters, split(node.data), 1,
                                                 walk.lastIndex)
                           outcome == IF walk.threw THEN "none"
                                      ELSE replaceOutcome(k \in walk.detached)
                           here    == CASE outcome = "replace" -> f.nodes
                                        [] outcome = "none" -> <<node>>
                                        [] OTHER -> <<>>
                           after   == [walk EXCEPT
                                          !.collected = k,
                                          !.lastIndex = IF walk.threw THEN @ ELSE f.lastIndex,
                                          !.threw = @ \/ outcome = TypeError]
                           rest    == replaceTextNodes(groups, letters, parentTag,
                                                       Tail(children), after)
                       IN  [nodes |-> here \o rest.nodes, walk |-> rest.walk]
                  ELSE LET rest == replaceTextNodes(groups, letters, parentTag,
                                                    Tail(children), walk)
                       IN  [nodes |-> <<node>> \o rest.nodes, walk |-> rest.walk]
             ELSE LET inner == replaceTextNodes(groups, letters, node.tagName,
                                                node.childNodes, walk)
                      rest  == replaceTextNodes(groups, letters, parentTag,
                                                Tail(children), inner.walk)
                  IN  [nodes |-> <<[node EXCEPT !.childNodes = inner.nodes]>> \o rest.nodes,
                       walk  |-> rest.walk]

\* processPageText(config, prefs) on document.body while the page takes
\* the given collected nodes out of the document: the body it leaves, or
\* the TypeError of Object.values(undefined), thrown before any replacement.
processPageTextWith(cfg, p, documentBody, detachedNodes) ==
    LET groups == cfg.confusing_letter_groups
    IN  IF ~groups.defined THEN [threw |-> TRUE, body |-> documentBody]
        ELSE LET allConfusingLetters == flatValues(groups.entries)
                 pass == replaceTextNodes(groups, allConfusingLetters, "BODY",
                                          documentBody.childNodes, StartOfWalk(detachedNodes))
             IN  [threw |-> pass.walk.threw,
                  body  |-> [documentBody EXCEPT !.childNodes = pass.nodes]]

\* The same on a page that takes no node away.
processPageText(cfg, p, documentBody) == processPageTextWith(cfg, p, documentBody, {})

(***************************************************************************)
(* applyGlobalStyles                                                       *)
(***************************************************************************)
\* Object.entries(obj) of an object kept as a function.  The order of the
\* keys in the JSON text is not kept: the entries come in one fixed order.
RECURSIVE entriesOver(_, _)
entriesOver(obj, keys) ==
    IF keys = {} THEN <<>>
    ELSE LET k == CHOOSE key \in keys : TRUE
         IN  <<[key |-> k, value |-> obj[k]]>> \o entriesOver(obj, keys \ {k})

ObjectEntries(obj) == entriesOver(obj, DOMAIN obj)

\* The text of the injected stylesheet, by its parts.
styleTextOf(p, cfg) ==
    [bgColor       |-> Or(Or(Lookup(ContentCOLOR_VALUES, p.background_color),
                             p.background_color), "#FFFFFF"),
     textColor     |-> Or(Or(Lookup(ContentCOLOR_VALUES, p.text_color), p.text_color), "#1A1A1A"),
     fontFamily    |-> p.font,
     fontSize      |-> p.font_size,
     lineHeight    |-> p.line_spacing,
     wordSpacing   |-> p.word_spacing,
     letterSpacing |-> p.letter_spacing,
     groupRules    |-> LET colors == ObjectEntries(cfg.default_highlight_colors)
                       IN  [i \in 1..Len(colors) |->
                               [selector        |-> ".focusmate-" \o colors[i].key,
                                color           |-> Or(Lookup(ContentCOLOR_VALUES, colors[i].value),
                                                       "inherit"),
                                fontWeight      |-> "bold",
                                backgroundColor |-> "rgba(0,0,0,0.05)"]]]

\* applyGlobalStyles that makes a style element at every call.
applyAppending(p, cfg, documentHead) ==
    Append(documentHead, [id |-> "focusmate-injected-styles", textContent |-> styleTextOf(p, cfg)])

\* document.head after applyGlobalStyles(prefs, config): the style element
\* with the id is reused, or made and appended.
applyGlobalStyles(p, cfg, documentHead) ==
    LET styleId == "focusmate-injected-styles"
        found   == {i \in 1..Len(documentHead) : documentHead[i].id = styleId}
    IN  IF found = {}
        THEN Append(documentHead, [id |-> styleId, textContent |-> styleTextOf(p, cfg)])
        ELSE LET i == CHOOSE k \in found : \A j \in found : k <= j
             IN  [documentHead EXCEPT ![i].textContent = styleTextOf(p, cfg)]

(***************************************************************************)
(* Documents                                                               *)
(***************************************************************************)
\* The texts of the pages: a word with a confusing letter, a word without,
\* blank text, and texts of several segments.
PageTexts == { <<"D">>, <<"a">>, <<" ">>, <<"a", " ", "D">>, <<" ", "D", "a">> }

\* The elements between document.body and a text, outermost first.
Ancestors == { <<>>, <<"P">>, <<"NOSCRIPT">>, <<"NOSCRIPT", "P">>, <<"P", "NOSCRIPT">> }

RECURSIVE Wrap(_, _)
Wrap(tags, node) ==
    IF tags = <<>> THEN node ELSE Element(Head(tags), "", <<Wrap(Tail(tags), node)>>)

\* Texts with a "<": a start tag after the confusing letter, and one before.
MarkupTexts == { <<"D", "<", "a">>, <<"<", "a", "D">> }

PageNodes ==
    {Wrap(tags, TextNode(t)) : tags \in Ancestors, t \in PageTexts}
        \cup {TextNode(t) : t \in MarkupTexts}

RECURSIVE ChildLists(_, _)
ChildLists(nodes, n) ==
    IF n = 0 THEN {<<>>}
    ELSE LET shorter == ChildLists(nodes, n - 1)
         IN  shorter \cup {Append(l, k) : l \in {m \in shorter : Len(m) = n - 1}, k \in nodes}

Bodies == {Element("BODY", "", kids) : kids \in ChildLists(PageNodes, MaxChildren) \ {<<>>}}

(***************************************************************************)
(* processPageText as a function of the document: a document is drawn and  *)
(* the function is run over it, up to MaxPasses times.                     *)
(***************************************************************************)
\* The preference snapshots handed to the function: the defaults, and
\* everything switched off.
PagePrefs(cfg) ==
    {cfg.user_preferences,
     [cfg.user_preferences EXCEPT !.active_modes = <<>>, !.active_letter_groups = <<>>]}

ProcessInit ==
    /\ build = "source/pop_window.jsx"
    /\ config \in Configs
    /\ prefs = config.user_preferences
    /\ sample = <<>>
    /\ segments = <<>>
    /\ rendered = NoRender
    /\ previewStyle = previewStyleOf(prefs)
    /\ phase = "input"
    /\ storage = NothingStored
    /\ served \in Bodies
    /\ head = <<>>
    /\ body = served
    /\ pagePrefs \in PagePrefs(config)
    /\ threw = FALSE
    /\ pc = "callback"
    /\ passes = 0
    /\ request = NoRequest
    /\ detached = {}
    /\ arrays = ArraysOf(prefs)
    /\ objects = <<ObjectOf(prefs, 1, 2)>>
    /\ prefsRef = 1
    /\ popup = PopupReady
    /\ saves = <<>>
    /\ inbox = <<>>
    /\ trigger = 0

ProcessPageText ==
    /\ passes < MaxPasses
    /\ LET r == processPageText(config, pagePrefs, body)
       IN  /\ body' = r.body
           /\ threw' = r.threw
    /\ passes' = passes + 1
    /\ UNCHANGED <<build, config, prefs, storage, served, head, pagePrefs, pc, request, detached>>
    /\ UNCHANGED previewVars
    /\ UNCHANGED heapVars
    /\ UNCHANGED extVars

ProcessNext == ProcessPageText

ProcessSpec == ProcessInit /\ [][ProcessNext]_vars

(***************************************************************************)
(* The content script on a page: initFocusMate, the storage callback and   *)
(* the reload on an updateStyles message.                                  *)
(***************************************************************************)
\* What chrome.storage.sync may hold: it outlives the configuration and the
\* palette it was written under, so a stored size or colour key need not be
\* one the present configuration offers.
StoredPrefs ==
    {FALLBACK_CONFIG.user_preferences,
     [FALLBACK_CONFIG.user_preferences EXCEPT
         !.font_size = 40, !.line_spacing = 400, !.letter_spacing = 80, !.word_spacing = 150,
         !.background_color = "unknown-color", !.text_color = "no-such-color"],
     [FALLBACK_CONFIG.user_preferences EXCEPT
         !.font_size = 8, !.line_spacing = 50, !.letter_spacing = -10, !.word_spacing = -5,
         !.background_color = "midnight", !.active_letter_groups = <<>>]}

Stored(p) == [defined |-> TRUE, value |-> p]

\* Pages of one node are enough for the styles.
PageBodies == {Element("BODY", "", <<k>>) : k \in PageNodes}

Init ==
    /\ build = "source/pop_window.jsx"
    /\ config \in Configs
    /\ prefs = config.user_preferences
    /\ sample = <<>>
    /\ segments = <<>>
    /\ rendered = NoRender
    /\ previewStyle = previewStyleOf(prefs)
    /\ phase = "input"
    /\ storage \in {NothingStored} \cup {Stored(p) : p \in StoredPrefs}
    /\ served \in PageBodies
    /\ head = <<>>
    /\ body = served
    /\ pagePrefs = config.user_preferences
    /\ threw = FALSE
    /\ pc = "start"
    /\ passes = 0
    /\ request = NoRequest
    /\ detached = {}
    /\ arrays = ArraysOf(prefs)
    /\ objects = <<ObjectOf(prefs, 1, 2)>>
    /\ prefsRef = 1
    /\ popup = PopupReady
    /\ saves = <<>>
    /\ inbox = <<>>
    /\ trigger = 0

\* initFocusMate up to the end of its awaits.
FetchConfig ==
    /\ pc = "start"
    /\ pc' = "fetched"
    /\ UNCHANGED <<build, config, prefs, storage, served, head, body, pagePrefs, threw, passes,
                   request, detached>>
    /\ UNCHANGED previewVars
    /\ UNCHANGED heapVars
    /\ UNCHANGED extVars

\* fetch or response.json() rejects: the catch logs it.
FetchFails ==
    /\ pc = "start"
    /\ pc' = "failed"
    /\ UNCHANGED <<build, config, prefs, storage, served, head, body, pagePrefs, threw, passes,
                   request, detached>>
    /\ UNCHANGED previewVars
    /\ UNCHANGED heapVars
    /\ UNCHANGED extVars

\* The callback of chrome.storage.sync.get.
StorageGetCallback ==
    /\ pc = "fetched"
    /\ LET p == IF storage.defined THEN storage.value ELSE config.user_preferences
           r == processPageText(config, p, body)
       IN  /\ pagePrefs' = p
           /\ head' = applyGlobalStyles(p, config, head)
           /\ body' = r.body
           /\ threw' = r.threw
    /\ passes' = passes + 1
    /\ pc' = "done"
    /\ UNCHANGED <<build, config, prefs, storage, served, request, detached>>
    /\ UNCHANGED previewVars
    /\ UNCHANGED heapVars
    /\ UNCHANGED extVars

\* The listener without location.reload(): the script runs again over the
\* document it has annotated.
ReloadKeepsDocument ==
    /\ \E newPrefs \in StoredPrefs \cup {config.user_preferences} :
           /\ storage' = Stored(newPrefs)
           /\ request' = updateStyles(newPrefs)
    /\ pagePrefs' = config.user_preferences
    /\ threw' = FALSE
    /\ passes' = 0
    /\ pc' = "start"
    /\ UNCHANGED <<build, config, prefs, served, head, body, detached>>
    /\ UNCHANGED previewVars
    /\ UNCHANGED heapVars
    /\ UNCHANGED extVars

\* The onMessage listener: the popup has stored new prefs (what a control
\* saved, or config.user_preferences on Reset) and sent updateStyles;
\* location.reload() brings back the page as served and runs the script
\* from its start.
Reload ==
    /\ \E newPrefs \in StoredPrefs \cup {config.user_preferences} :
           /\ storage' = Stored(newPrefs)
           /\ request' = updateStyles(newPrefs)
    /\ body' = served
    /\ head' = <<>>
    /\ pagePrefs' = config.user_preferences
    /\ threw' = FALSE
    /\ passes' = 0
    /\ pc' = "start"
    /\ UNCHANGED <<build, config, prefs, served, detached>>
    /\ UNCHANGED previewVars
    /\ UNCHANGED heapVars
    /\ UNCHANGED extVars

Next == FetchConfig \/ FetchFails \/ StorageGetCallback \/ Reload

Spec == Init /\ [][Next]_vars

(***************************************************************************)
(* Claims about the content script                                         *)
(***************************************************************************)
\* The marking of each character of a document, in document order: the
\* highlight class it is under, and whether it is bold.
RECURSIVE InPlaceMarks(_, _)
InPlaceMarks(nodes, className) ==
    IF nodes = <<>> THEN <<>>
    ELSE LET node == Head(nodes)
             here == IF node.nodeType = "text"
                     THEN [i \in 1..Len(node.data) |->
                              [char |-> node.data[i], class |-> className, bold |-> FALSE]]
                     ELSE InPlaceMarks(node.childNodes,
                                       IF node.className = "" THEN className ELSE node.className)
         IN  here \o InPlaceMarks(Tail(nodes), className)

\* The marking the preview gives the characters of a text.
MarkOf(el, isBold) ==
    [char  |-> el.char,
     class |-> IF el.kind = "group" THEN "focusmate-" \o el.key
               ELSE IF el.kind = "vowel" THEN "vowel" ELSE "",
     bold  |-> isBold]

UnitMarks(unit) ==
    IF unit.ws
    THEN [i \in 1..Len(unit.text) |-> [char |-> unit.text[i], class |-> "", bold |-> FALSE]]
    ELSE Concat([j \in 1..Len(unit.parts) |->
                    [k \in 1..Len(unit.parts[j].chars) |->
                        MarkOf(unit.parts[j].chars[k], unit.parts[j].tag = "b")]])

PreviewMarksOfText(text) ==
    LET r == processedSampleText(build, config, pagePrefs, text)
    IN  Concat([i \in 1..Len(r.units) |-> UnitMarks(r.units[i])])

\* The marking the preview renderer gives the texts of a document that the
\* content script works on; the other texts are left plain.
RECURSIVE PreviewMarks(_, _)
PreviewMarks(nodes, parentTag) ==
    IF nodes = <<>> THEN <<>>
    ELSE LET node == Head(nodes)
             here == IF node.nodeType = "text"
                     THEN IF acceptNode(parentTag, node.data)
                          THEN PreviewMarksOfText(node.data)
                          ELSE [i \in 1..Len(node.data) |->
                                   [char |-> node.data[i], class |-> "", bold |-> FALSE]]
                     ELSE PreviewMarks(node.childNodes, node.tagName)
         IN  here \o PreviewMarks(Tail(nodes), parentTag)

\* C5: after processPageText every character of the document carries the
\* classification and the bold marking that processedSampleText gives it
\* for the same text, configuration and preferences.
C5_BackEndEquivalence ==
    (passes = 1 /\ ~threw) =>
        InPlaceMarks(body.childNodes, "") = PreviewMarks(served.childNodes, "BODY")

\* C6: a second processPageText over the annotated document, with the same
\* configuration and preferences, leaves the tree as the first left it.
C6_InPlaceIdempotence ==
    (passes = 2 /\ ~threw) =>
        body = processPageText(config, pagePrefs, served).body

\* The script, style, textarea, input and noscript elements of a document
\* with all they hold, in document order.
RECURSIVE Containers(_)
Containers(nodes) ==
    IF nodes = <<>> THEN <<>>
    ELSE LET node == Head(nodes)
             here == IF node.nodeType = "text" THEN <<>>
                     ELSE IF tagToLowerCase(node.tagName)
                               \in {"script", "style", "textarea", "input", "noscript"}
                          THEN <<node>>
                          ELSE Containers(node.childNodes)
         IN  here \o Containers(Tail(nodes))

\* C7: processPageText replaces no text node that lies inside a script,
\* style, textarea, input or noscript element, at any depth: what those
\* elements hold is as it was served.
C7_TraversalRestriction ==
    (passes = 1) => Containers(body.childNodes) = Containers(served.childNodes)

\* C8: a colour key that the palette does not hold resolves, at each call
\* site, to that site's one fixed fallback: #FFFFFF and #1A1A1A for the
\* stylesheet's background and text colour, inherit for a group rule,
\* #FFFFFF and #000000 for the preview's background and text colour.
C8_FixedColourFallback ==
    pc = "done" =>
        LET style == head[1].textContent
        IN  /\ pagePrefs.background_color \notin DOMAIN ContentCOLOR_VALUES
                  => style.bgColor = "#FFFFFF"
            /\ pagePrefs.text_color \notin DOMAIN ContentCOLOR_VALUES
                  => style.textColor = "#1A1A1A"
            /\ \A group \in DOMAIN config.default_highlight_colors :
                  config.default_highlight_colors[group] \notin DOMAIN ContentCOLOR_VALUES
                      => \A i \in 1..Len(style.groupRules) :
                             style.groupRules[i].selector = ".focusmate-" \o group
                                 => style.groupRules[i].color = "inherit"
            /\ pagePrefs.background_color \notin DOMAIN PopupCOLOR_VALUES
                  => previewStyleOf(pagePrefs).backgroundColor = "#FFFFFF"
            /\ pagePrefs.text_color \notin DOMAIN PopupCOLOR_VALUES
                  => previewStyleOf(pagePrefs).color = "#000000"

\* C10: the sizes and spacings written into the stylesheet, and those of
\* the preview's style for the same prefs, lie within the configured bounds:
\* a stored value below min is applied as min, one above max as max.
Clamp(v, range) == IF v < range.min THEN range.min ELSE IF v > range.max THEN range.max ELSE v

C10_NumericClamping ==
    pc = "done" =>
        LET style == head[1].textContent
        IN  /\ style.fontSize = Clamp(pagePrefs.font_size, config.font_size)
            /\ style.lineHeight = Clamp(pagePrefs.line_spacing, config.line_spacing)
            /\ style.letterSpacing = Clamp(pagePrefs.letter_spacing, config.letter_spacing)
            /\ style.wordSpacing = Clamp(pagePrefs.word_spacing, config.word_spacing)
            /\ previewStyleOf(pagePrefs).fontSize = Clamp(pagePrefs.font_size, config.font_size)
            /\ previewStyleOf(pagePrefs).lineHeight
                  = Clamp(pagePrefs.line_spacing, config.line_spacing)
            /\ previewStyleOf(pagePrefs).letterSpacing
                  = Clamp(pagePrefs.letter_spacing, config.letter_spacing)
            /\ previewStyleOf(pagePrefs).wordSpacing
                  = Clamp(pagePrefs.word_spacing, config.word_spacing)

\* Is there a focusmate-<key> span among the nodes, at any depth?
RECURSIVE hasHighlightSpan(_)
hasHighlightSpan(nodes) ==
    \E i \in 1..Len(nodes) :
        /\ nodes[i].nodeType = "element"
        /\ \/ nodes[i].className # ""
           \/ hasHighlightSpan(nodes[i].childNodes)

RECURSIVE textContent(_)
textContent(nodes) ==
    IF nodes = <<>> THEN <<>>
    ELSE (IF Head(nodes).nodeType = "text" THEN Head(nodes).data
          ELSE textContent(Head(nodes).childNodes))
         \o textContent(Tail(nodes))

\* The tag names of the elements among the nodes, at any depth.
RECURSIVE TagNames(_)
TagNames(nodes) ==
    UNION {IF nodes[i].nodeType = "text" THEN {}
           ELSE {nodes[i].tagName} \cup TagNames(nodes[i].childNodes) : i \in 1..Len(nodes)}

\* C12: processPageText keeps the text of the document, character for
\* character, also where a text holds "<", and the only elements it adds
\* are spans (the wrapper of a word and the focusmate-<key> spans).
C12_InPlaceTextPreservation ==
    (passes = 1 /\ ~threw) =>
        /\ textContent(body.childNodes) = textContent(served.childNodes)
        /\ TagNames(body.childNodes) \subseteq TagNames(served.childNodes) \cup {"SPAN"}

\* The keys of the letter groups of a configuration.
GroupKeys(cfg) ==
    {cfg.confusing_letter_groups.entries[i].key :
        i \in 1..Len(cfg.confusing_letter_groups.entries)}

\* C13: the stylesheet that applyGlobalStyles writes holds exactly one
\* .focusmate-<key> rule for each letter-group key of the configuration and
\* none for any other key; each rule sets a colour, bold weight and the
\* faint background.
C13_StylesheetRuleSet ==
    pc = "done" =>
        LET rules == head[1].textContent.groupRules
        IN  /\ \A key \in GroupKeys(config) :
                   Cardinality({i \in 1..Len(rules) :
                                   rules[i].selector = ".focusmate-" \o key}) = 1
            /\ \A i \in 1..Len(rules) :
                   /\ \E key \in GroupKeys(config) : rules[i].selector = ".focusmate-" \o key
                   /\ rules[i].color # ""
                   /\ rules[i].fontWeight = "bold"
                   /\ rules[i].backgroundColor = "rgba(0,0,0,0.05)"

(***************************************************************************)
(* Further claims about the preview                                        *)
(***************************************************************************)
\* C14: every unit of the segmenter is a non-empty maximal run of
\* whitespace or of non-whitespace; the empty sample gives no unit and a
\* sample of whitespace only gives exactly one.
C14_NoEmptyUnits ==
    phase = "rendered" =>
        /\ \A i \in 1..Len(segments) :
               /\ segments[i] # <<>>
               /\ \/ \A k \in 1..Len(segments[i]) : isWhitespace(segments[i][k])
                  \/ \A k \in 1..Len(segments[i]) : ~isWhitespace(segments[i][k])
        /\ \A i \in 1..(Len(segments) - 1) :
               (segments[i] # <<>> /\ segments[i + 1] # <<>>)
                   => isWhitespace(segments[i][1]) # isWhitespace(segments[i + 1][1])
        /\ sample = <<>> => segments = <<>>
        /\ (sample # <<>> /\ \A k \in 1..Len(sample) : isWhitespace(sample[k]))
               => Len(segments) = 1

\* The sample as the one text node of a page, and what processPageText
\* leaves of that page.
SamplePage == Element("BODY", "", <<TextNode(sample)>>)

SampleInPlace == processPageText(config, prefs, SamplePage)

\* C15: both renderers emit every whitespace unit as plain text that is the
\* input run itself, not wrapped, not bolded and not classified, whatever
\* modes and groups are active.
C15_WhitespacePassThrough ==
    (phase = "rendered" /\ ~rendered.threw) =>
        \A i \in 1..Len(segments) :
            (segments[i] # <<>> /\ \A k \in 1..Len(segments[i]) : isWhitespace(segments[i][k])) =>
                /\ rendered.units[i] = [ws |-> TRUE, text |-> segments[i], parts |-> <<>>]
                /\ LET nodes == SampleInPlace.body.childNodes
                   IN  IF SampleInPlace.threw \/ ~acceptNode("BODY", sample)
                       THEN nodes = <<TextNode(sample)>>
                       ELSE /\ Len(nodes) = Len(segments)
                            /\ nodes[i] = TextNode(segments[i])

C15_Witness ==
    /\ phase = "rendered"
    /\ ~rendered.threw
    /\ ~SampleInPlace.threw
    /\ includes(prefs.active_modes, "bold_starts")
    /\ includes(prefs.active_modes, "vowel_coloring")
    /\ prefs.active_letter_groups # <<>>
    /\ \E i \in 1..Len(segments) : segments[i] = <<" ", " ">>
    /\ hasHighlightSpan(SampleInPlace.body.childNodes)

\* The character elements of each unit of a render, in order.
CharsOf(r) ==
    [i \in 1..Len(r.units) |->
        Concat([j \in 1..Len(r.units[i].parts) |-> r.units[i].parts[j].chars])]

WithoutBoldStarts(p) ==
    [p EXCEPT !.active_modes = SelectSeq(@, LAMBDA mode : mode # "bold_starts")]

\* C16: the classification of a character (none, vowel or a group key, with
\* its colour) is the same with and without bold_starts and in either
\* half of its word; a character of the bold half that a group or the vowel
\* rule matches is inside the <b> and carries its colour.
C16_ClassificationAndBoldingCompose ==
    phase = "rendered" =>
        /\ CharsOf(rendered)
               = CharsOf(processedSampleText(build, config, WithoutBoldStarts(prefs), sample))
        /\ \A i \in 1..Len(rendered.units) :
               \A j \in 1..Len(rendered.units[i].parts) :
                   LET part == rendered.units[i].parts[j]
                   IN  \A k \in 1..Len(part.chars) :
                           /\ part.chars[k].kind \in {"group", "vowel", "plain"}
                           /\ part.chars[k].kind \in {"group", "vowel"}
                                  <=> part.chars[k].color # ""
                           /\ part.chars[k].kind = "plain"
                                  <=> /\ part.chars[k].key = ""
                                      /\ ~(/\ includes(prefs.active_modes, "vowel_coloring")
                                           /\ toLowerCase(part.chars[k].char) \in {"a", "e"})

\* A word whose bold half holds a group letter and a vowel, both coloured,
\* and whose other half holds a coloured letter too.
C16_Witness ==
    /\ phase = "rendered"
    /\ ~rendered.threw
    /\ \E i \in 1..Len(rendered.units) :
           /\ Len(rendered.units[i].parts) = 2
           /\ rendered.units[i].parts[1].tag = "b"
           /\ \E k \in 1..Len(rendered.units[i].parts[1].chars) :
                  rendered.units[i].parts[1].chars[k].kind = "group"
           /\ \E k \in 1..Len(rendered.units[i].parts[1].chars) :
                  rendered.units[i].parts[1].chars[k].kind = "vowel"
           /\ \E k \in 1..Len(rendered.units[i].parts[2].chars) :
                  rendered.units[i].parts[2].chars[k].kind \in {"group", "vowel"}

(***************************************************************************)
(* The popup's controls.  The prefs state is an object on a heap and its   *)
(* two lists are arrays on it, so that a write through one reference shows *)
(* under every other.  The object at address 1 is config.user_preferences. *)
(***************************************************************************)
\* A short text in the place of the sample sentence.
SampleText == <<"b", "e", "D", " ", "a">>

\* Array.prototype.indexOf, from 1; 0 when the item is absent.
indexOf(list, item) ==
    IF includes(list, item)
    THEN CHOOSE i \in 1..Len(list) : list[i] = item /\ \A j \in 1..(i - 1) : list[j] # item
    ELSE 0

\* list.splice(index, 1)
splice(list, index) == SubSeq(list, 1, index - 1) \o SubSeq(list, index + 1, Len(list))

\* toggleList with unshift for push: a newly enabled item goes to the front.
toggleListUnshift(heap, currentList, item) ==
    LET list  == heap[currentList]
        index == indexOf(list, item)
    IN  [arrays |-> Append(heap, IF index > 0 THEN splice(list, index) ELSE <<item>> \o list),
         list   |-> Len(heap) + 1]

\* toggleList writing to the array it was given.
toggleListInPlace(heap, currentList, item) ==
    LET list  == heap[currentList]
        index == indexOf(list, item)
    IN  [arrays |-> [heap EXCEPT ![currentList] =
                        IF index > 0 THEN splice(list, index) ELSE Append(list, item)],
         list   |-> currentList]

\* toggleList(currentList, item): the heap it leaves and the address of the
\* array it returns, which is the copy [...currentList] after the splice
\* or the push.
toggleList(heap, currentList, item) ==
    LET list  == heap[currentList]
        index == indexOf(list, item)
    IN  [arrays |-> Append(heap, IF index > 0 THEN splice(list, index) ELSE Append(list, item)),
         list   |-> Len(heap) + 1]

PopupInit ==
    /\ build \in Builds
    /\ config \in Configs
    /\ storage \in {NothingStored} \cup {Stored(p) : p \in StoredPrefs}
    /\ arrays = IF storage.defined
                THEN ArraysOf(config.user_preferences) \o ArraysOf(storage.value)
                ELSE ArraysOf(config.user_preferences)
    /\ objects = IF storage.defined
                 THEN <<ObjectOf(config.user_preferences, 1, 2), ObjectOf(storage.value, 3, 4)>>
                 ELSE <<ObjectOf(config.user_preferences, 1, 2)>>
    /\ prefsRef = Len(objects)
    /\ popup = PopupReady
    /\ saves = <<>>
    /\ inbox = <<>>
    /\ trigger = 0
    /\ prefs = ValueOf(arrays, objects, prefsRef)
    /\ sample = SampleText
    /\ segments = split(sample)
    /\ rendered = processedSampleText(build, config, prefs, sample)
    /\ previewStyle = previewStyleOf(prefs)
    /\ phase = "rendered"
    /\ served = EmptyBody
    /\ head = <<>>
    /\ body = EmptyBody
    /\ pagePrefs = config.user_preferences
    /\ threw = FALSE
    /\ pc = "start"
    /\ passes = 0
    /\ request = NoRequest
    /\ detached = {}

\* savePrefs(newPrefs) and the render that setPrefs brings: newPrefs is the
\* object at address ref of the heap that the caller's expression has left.
\* (The write, the message and what the tab does with it are in ExtSpec.)
savePrefs(heap, objs, ref) ==
    /\ arrays' = heap
    /\ objects' = objs
    /\ prefsRef' = ref
    /\ prefs' = ValueOf(heap, objs, ref)
    /\ storage' = Stored(ValueOf(heap, objs, ref))
    /\ rendered' = processedSampleText(build, config, ValueOf(heap, objs, ref), sample)
    /\ previewStyle' = previewStyleOf(ValueOf(heap, objs, ref))
    /\ UNCHANGED <<build, config, sample, segments, phase>>
    /\ UNCHANGED <<served, head, body, pagePrefs, threw, pc, passes, request, detached>>
    /\ UNCHANGED extVars

\* A mode button: savePrefs({...prefs, active_modes: toggleList(...)}).
ToggleMode(mode) ==
    /\ ~rendered.threw
    /\ config.confusing_letter_groups.defined
    /\ Len(objects) < MaxObjects
    /\ LET t == toggleList(arrays, objects[prefsRef].active_modes, mode)
       IN  savePrefs(t.arrays,
                     Append(objects, [objects[prefsRef] EXCEPT !.active_modes = t.list]),
                     Len(objects) + 1)

\* A letter-group button.
ToggleGroup(key) ==
    /\ ~rendered.threw
    /\ config.confusing_letter_groups.defined
    /\ Len(objects) < MaxObjects
    /\ LET t == toggleList(arrays, objects[prefsRef].active_letter_groups, key)
       IN  savePrefs(t.arrays,
                     Append(objects, [objects[prefsRef] EXCEPT !.active_letter_groups = t.list]),
                     Len(objects) + 1)

\* The Reset button: savePrefs(config.user_preferences).
ResetPrefs ==
    /\ ~rendered.threw
    /\ savePrefs(arrays, objects, 1)

PopupNext ==
    \/ \E mode \in {"vowel_coloring", "bold_starts"} : ToggleMode(mode)
    \/ \E key \in GroupKeys(config) : ToggleGroup(key)
    \/ ResetPrefs

PopupSpec == PopupInit /\ [][PopupNext]_vars

\* C17: no step changes an object or an array that is on the heap: a
\* toggle, the render and the save that follow it leave the prefs object
\* they started from, and its two lists, as they were, and the list that
\* toggleList returns is a new one.
C17_NoMutationOfPreferences ==
    [][/\ Len(arrays') >= Len(arrays)
       /\ Len(objects') >= Len(objects)
       /\ \A a \in 1..Len(arrays) : arrays'[a] = arrays[a]
       /\ \A o \in 1..Len(objects) : objects'[o] = objects[o]]_vars

\* Modes and groups have been toggled away from the configured lists, and
\* Reset has gone back to the configured object.
C17_Witness ==
    /\ Len(objects) = MaxObjects
    /\ prefsRef = 1
    /\ \E o \in 2..Len(objects) :
           /\ arrays[objects[o].active_modes] # arrays[1]
           /\ arrays[objects[o].active_letter_groups] # arrays[2]
    /\ prefs = config.user_preferences

\* C18: processPageText puts a character under a focusmate-<key> span only
\* if <key> is in prefs.active_letter_groups, and the key is that of the
\* first group of the activation order that holds the character; with no
\* active group nothing is highlighted.
C18_ActivationRespectedInPlace ==
    (passes = 1 /\ ~threw) =>
        LET marks == InPlaceMarks(body.childNodes, "")
        IN  \A i \in 1..Len(marks) :
                marks[i].class # "" =>
                    LET key == findGroupKey(build, config.confusing_letter_groups,
                                            pagePrefs.active_letter_groups,
                                            toLowerCase(marks[i].char))
                    IN  /\ key \notin {"", TypeError}
                        /\ includes(pagePrefs.active_letter_groups, key)
                        /\ marks[i].class = "focusmate-" \o key

(***************************************************************************)
(* processPageText on a page whose own handlers take text nodes out of the *)
(* document while the pass runs (a replaceChild on an earlier node lets    *)
(* them run), so that a collected node has no parent at its turn.          *)
(***************************************************************************)
DetachNodes ==
    {TextNode(<<"D">>), TextNode(<<"a">>), Wrap(<<"P">>, TextNode(<<"D">>)),
     Wrap(<<"NOSCRIPT">>, TextNode(<<"D">>))}

DetachBodies ==
    {Element("BODY", "", kids) : kids \in ChildLists(DetachNodes, MaxChildren + 1) \ {<<>>}}

\* textNodes.length: the text nodes that the walker accepts.
RECURSIVE countCollected(_, _)
countCollected(children, parentTag) ==
    IF children = <<>> THEN 0
    ELSE (IF Head(children).nodeType = "text"
          THEN (IF acceptNode(parentTag, Head(children).data) THEN 1 ELSE 0)
          ELSE countCollected(Head(children).childNodes, Head(children).tagName))
         + countCollected(Tail(children), parentTag)

DetachInit ==
    /\ build = "source/pop_window.jsx"
    /\ config \in Configs
    /\ prefs = config.user_preferences
    /\ sample = <<>>
    /\ segments = <<>>
    /\ rendered = NoRender
    /\ previewStyle = previewStyleOf(prefs)
    /\ phase = "input"
    /\ storage = NothingStored
    /\ served \in DetachBodies
    /\ head = <<>>
    /\ body = served
    /\ pagePrefs = config.user_preferences
    /\ threw = FALSE
    /\ pc = "callback"
    /\ passes = 0
    /\ request = NoRequest
    /\ detached \in SUBSET (2..countCollected(served.childNodes, "BODY"))
    /\ arrays = ArraysOf(prefs)
    /\ objects = <<ObjectOf(prefs, 1, 2)>>
    /\ prefsRef = 1
    /\ popup = PopupReady
    /\ saves = <<>>
    /\ inbox = <<>>
    /\ trigger = 0

ProcessPageTextDetached ==
    /\ passes = 0
    /\ LET r == processPageTextWith(config, pagePrefs, body, detached)
       IN  /\ body' = r.body
           /\ threw' = r.threw
    /\ passes' = 1
    /\ UNCHANGED <<build, config, prefs, storage, served, head, pagePrefs, pc, request, detached>>
    /\ UNCHANGED previewVars
    /\ UNCHANGED heapVars
    /\ UNCHANGED extVars

DetachNext == ProcessPageTextDetached

DetachSpec == DetachInit /\ [][DetachNext]_vars

\* The nodes without the collected text nodes that were taken away.
RECURSIVE withoutDetached(_, _, _)
withoutDetached(children, parentTag, collected) ==
    IF children = <<>> THEN [nodes |-> <<>>, collected |-> collected]
    ELSE LET node == Head(children)
         IN  IF node.nodeType = "text"
             THEN LET k    == IF acceptNode(parentTag, node.data)
                              THEN collected + 1 ELSE collected
                      rest == withoutDetached(Tail(children), parentTag, k)
                  IN  [nodes |-> (IF k > collected /\ k \in detached THEN <<>> ELSE <<node>>)
                                     \o rest.nodes,
                       collected |-> rest.collected]
             ELSE LET inner == withoutDetached(node.childNodes, node.tagName, collected)
                      rest  == withoutDetached(Tail(children), parentTag, inner.collected)
                  IN  [nodes |-> <<[node EXCEPT !.childNodes = inner.nodes]>> \o rest.nodes,
                       collected |-> rest.collected]

\* C19: a collected text node that has no parent at its turn is skipped and
\* nothing else: the pass does not throw, and every other collected node
\* is replaced as in a pass over the document without the missing nodes.
C19_NodeLocalFailure ==
    (passes = 1 /\ config.confusing_letter_groups.defined) =>
        /\ ~threw
        /\ body = processPageText(config, pagePrefs,
                      [served EXCEPT !.childNodes =
                          withoutDetached(served.childNodes, "BODY", 0).nodes]).body

\* The second of three texts was taken away; the first and the third have
\* their letters wrapped.
C19_Witness ==
    /\ passes = 1
    /\ served.childNodes = <<TextNode(<<"D">>), TextNode(<<"a">>), Wrap(<<"P">>, TextNode(<<"D">>))>>
    /\ detached = {2}
    /\ Len(body.childNodes) = 2
    /\ hasHighlightSpan(<<body.childNodes[1]>>)
    /\ hasHighlightSpan(body.childNodes[2].childNodes)

(***************************************************************************)
(* applyGlobalStyles as a function of the document: it is called up to     *)
(* MaxCalls times on one document, each time with a configuration and a    *)
(* preference snapshot of its own.                                         *)
(***************************************************************************)
\* A style element of the page's own.
PageStyle(n) == [id |-> "", textContent |-> [css |-> n]]

PageHeads == {<<>>, <<PageStyle(1)>>, <<PageStyle(1), PageStyle(2)>>}

StyleInit ==
    /\ build = "source/pop_window.jsx"
    /\ config \in Configs
    /\ prefs = config.user_preferences
    /\ sample = <<>>
    /\ segments = <<>>
    /\ rendered = NoRender
    /\ previewStyle = previewStyleOf(prefs)
    /\ phase = "input"
    /\ storage = NothingStored
    /\ served = EmptyBody
    /\ head \in PageHeads
    /\ body = EmptyBody
    /\ pagePrefs = config.user_preferences
    /\ threw = FALSE
    /\ pc = "callback"
    /\ passes = 0
    /\ request = NoRequest
    /\ detached = {}
    /\ arrays = ArraysOf(prefs)
    /\ objects = <<ObjectOf(prefs, 1, 2)>>
    /\ prefsRef = 1
    /\ popup = PopupReady
    /\ saves = <<>>
    /\ inbox = <<>>
    /\ trigger = 0

ApplyGlobalStyles ==
    /\ passes < MaxCalls
    /\ \E cfg \in Configs :
           \E p \in StoredPrefs \cup PagePrefs(cfg) :
               /\ config' = cfg
               /\ pagePrefs' = p
               /\ head' = applyGlobalStyles(p, cfg, head)
    /\ passes' = passes + 1
    /\ UNCHANGED <<build, prefs, storage, served, body, threw, pc, request, detached>>
    /\ UNCHANGED previewVars
    /\ UNCHANGED heapVars
    /\ UNCHANGED extVars

StyleNext == ApplyGlobalStyles

StyleSpec == StyleInit /\ [][StyleNext]_vars

\* The style elements of a head that carry the id of the injected one.
Injected(documentHead) ==
    {i \in 1..Len(documentHead) : documentHead[i].id = "focusmate-injected-styles"}

\* C20: after any number of applyGlobalStyles calls the document holds
\* exactly one style element with the id focusmate-injected-styles, and its
\* text is that of the configuration and preferences of the latest call.
C20_SingleInjectedStylesheet ==
    passes >= 1 =>
        /\ Cardinality(Injected(head)) = 1
        /\ \A i \in Injected(head) : head[i].textContent = styleTextOf(pagePrefs, config)

\* The last of MaxCalls calls, on a page with a style element of its own,
\* with prefs and a configuration that are not the defaults.
C20_Witness ==
    /\ passes = MaxCalls
    /\ Len(head) = 2
    /\ head[1] = PageStyle(1)
    /\ head[2].textContent = styleTextOf(pagePrefs, config)
    /\ pagePrefs.background_color = "midnight"
    /\ config = DPREF_OVERLAP

\* The items of a list, and whether it holds none twice.
ItemsOf(list) == {list[i] : i \in 1..Len(list)}

isDuplicateFree(list) == \A i, j \in 1..Len(list) : list[i] = list[j] => i = j

\* The list without an item, the others in their order.
WithoutItem(list, item) == SelectSeq(list, LAMBDA x : x # item)

\* C21: the lists on the heap start duplicate-free, and every toggle makes
\* of the list it is given a duplicate-free list that differs from it in
\* the membership of exactly one item: an item that was in the list is
\* gone and the others keep their order, an item that was not is added
\* at the end.
C21_ToggleInvariant ==
    [][Len(arrays') > Len(arrays) =>
          LET before == objects[prefsRef]
              after  == objects'[prefsRef']
              old    == IF after.active_modes # before.active_modes
                        THEN arrays[before.active_modes]
                        ELSE arrays[before.active_letter_groups]
              new    == arrays'[Len(arrays')]
              diff   == (ItemsOf(old) \ ItemsOf(new)) \cup (ItemsOf(new) \ ItemsOf(old))
          IN  /\ isDuplicateFree(old)
              /\ isDuplicateFree(new)
              /\ Cardinality(diff) = 1
              /\ \A item \in diff :
                     IF item \in ItemsOf(old)
                     THEN new = WithoutItem(old, item)
                     ELSE new = Append(old, item)
              /\ (after.active_modes # before.active_modes)
                     # (after.active_letter_groups # before.active_letter_groups)]_vars

\* vowel_coloring was enabled behind bold_starts, then bold_starts disabled.
C21_Witness ==
    /\ \E a \in 1..Len(arrays) : arrays[a] = <<"bold_starts", "vowel_coloring">>
    /\ prefs.active_modes = <<"vowel_coloring">>
    /\ \A a \in 1..Len(arrays) : isDuplicateFree(arrays[a])

\* The confusing letters of a segment, by position, under the present
\* configuration.
ConfusingIn(segment) ==
    {j \in 1..Len(segment) :
        classMatches(flatValues(config.confusing_letter_groups.entries), segment[j])}

\* A segment and the node made of it: a segment with whitespace or without
\* a confusing letter is a text node; any other is a wrapper span in which
\* each of its confusing letters is under a focusmate-<key> class.
SegmentHighlighted(segment, node) ==
    IF hasWhitespace(segment) \/ ConfusingIn(segment) = {}
    THEN node = TextNode(segment)
    ELSE /\ node.nodeType = "element"
         /\ node.tagName = "SPAN"
         /\ node.className = ""
         /\ LET marks == InPlaceMarks(node.childNodes, "")
            IN  Cardinality({m \in 1..Len(marks) :
                                /\ marks[m].class # ""
                                /\ classMatches(flatValues(config.confusing_letter_groups.entries),
                                                marks[m].char)})
                    = Cardinality(ConfusingIn(segment))

\* The nodes of a served document against those of the processed one: an
\* accepted text node has become the nodes of its segments, all else is
\* in its place.
RECURSIVE EverySegmentHighlighted(_, _, _)
EverySegmentHighlighted(servedNodes, nodes, parentTag) ==
    IF servedNodes = <<>> THEN nodes = <<>>
    ELSE LET node == Head(servedNodes)
             segs == split(node.data)
             n    == IF node.nodeType = "text" /\ acceptNode(parentTag, node.data)
                     THEN Len(segs) ELSE 1
         IN  /\ Len(nodes) >= n
             /\ IF node.nodeType = "element"
                THEN /\ nodes[1].nodeType = "element"
                     /\ nodes[1].tagName = node.tagName
                     /\ EverySegmentHighlighted(node.childNodes, nodes[1].childNodes,
                                                node.tagName)
                ELSE IF acceptNode(parentTag, node.data)
                THEN \A i \in 1..n : SegmentHighlighted(segs[i], nodes[i])
                ELSE nodes[1] = node
             /\ EverySegmentHighlighted(Tail(servedNodes), SubSeq(nodes, n + 1, Len(nodes)),
                                        parentTag)

\* C22: whatever segments and text nodes went before it, a word segment is
\* highlighted if and only if it holds a configured confusing letter, and
\* then each such letter of it is wrapped: the lastIndex that test() sets
\* on the shared letterRegex does not reach the next segment.
C22_RegexStateDoesNotLeak ==
    (passes = 1 /\ ~threw) =>
        EverySegmentHighlighted(served.childNodes, body.childNodes, "BODY")

\* Two text nodes with a confusing letter each, one after the other, and
\* both wrapped.
C22_Witness ==
    /\ passes = 1
    /\ ~threw
    /\ served.childNodes = <<TextNode(<<"a", " ", "D">>), TextNode(<<"D">>)>>
    /\ Len(body.childNodes) = 4
    /\ hasHighlightSpan(body.childNodes[3].childNodes)
    /\ hasHighlightSpan(body.childNodes[4].childNodes)

(***************************************************************************)
(* The extension: the popup (loadConfig, savePrefs and their callbacks),   *)
(* chrome.storage.sync and the content script of the active tab.  The      *)
(* writes of chrome.storage.sync.set complete in the order of the calls.   *)
(***************************************************************************)
\* One page is enough here.
ExtBodies == {Element("BODY", "", <<TextNode(<<"a", " ", "D">>)>>)}

\* What a control of the settings tab, or Reset, hands to savePrefs.
Edits(p, cfg) ==
    {cfg.user_preferences,
     [p EXCEPT !.font_size = 20],
     [p EXCEPT !.background_color = "light-blue"]}

\* The popup is open and loadConfig has set the configuration and asked
\* for the stored prefs (the prefs state is still that of useState); the
\* content script of the tab has started.
ExtInit ==
    /\ build = "source/pop_window.jsx"
    /\ config \in Configs
    /\ prefs = FALLBACK_CONFIG.user_preferences
    /\ sample = SampleText
    /\ segments = split(sample)
    /\ rendered = processedSampleText(build, config, prefs, sample)
    /\ previewStyle = previewStyleOf(prefs)
    /\ phase = "rendered"
    /\ storage \in {NothingStored} \cup {Stored(p) : p \in StoredPrefs}
    /\ served \in ExtBodies
    /\ head = <<>>
    /\ body = served
    /\ pagePrefs = config.user_preferences
    /\ threw = FALSE
    /\ pc = "start"
    /\ passes = 0
    /\ request = NoRequest
    /\ detached = {}
    /\ arrays = ArraysOf(prefs)
    /\ objects = <<ObjectOf(prefs, 1, 2)>>
    /\ prefsRef = 1
    /\ popup = [at |-> "loading", result |-> storage]
    /\ saves = <<>>
    /\ inbox = <<>>
    /\ trigger = 0

\* The callback of chrome.storage.sync.get in loadConfig.
PopupGetCallback ==
    /\ popup.at = "loading"
    /\ ~rendered.threw
    /\ LET p == IF popup.result.defined THEN popup.result.value
                ELSE config.user_preferences
       IN  /\ prefs' = p
           /\ rendered' = processedSampleText(build, config, p, sample)
           /\ previewStyle' = previewStyleOf(p)
    /\ popup' = [popup EXCEPT !.at = "ready"]
    /\ UNCHANGED <<build, config, sample, segments, phase>>
    /\ UNCHANGED pageVars
    /\ UNCHANGED heapVars
    /\ UNCHANGED <<saves, inbox, trigger>>

\* savePrefs(newPrefs) up to its return: setPrefs, and the call of
\* chrome.storage.sync.set.  The controls are there once config is set.
SavePrefs ==
    /\ ~rendered.threw
    /\ Len(saves) < MaxSaves
    /\ \E newPrefs \in Edits(prefs, config) :
           /\ prefs' = newPrefs
           /\ rendered' = processedSampleText(build, config, newPrefs, sample)
           /\ previewStyle' = previewStyleOf(newPrefs)
           /\ saves' = Append(saves, [prefs |-> newPrefs, written |-> FALSE, sent |-> FALSE])
    /\ UNCHANGED <<build, config, sample, segments, phase>>
    /\ UNCHANGED pageVars
    /\ UNCHANGED heapVars
    /\ UNCHANGED <<popup, inbox, trigger>>

\* chrome.storage.sync.set completes: the oldest write not yet made.
WriteCompletes ==
    /\ \E k \in 1..Len(saves) :
           /\ ~saves[k].written
           /\ \A j \in 1..(k - 1) : saves[j].written
           /\ storage' = Stored(saves[k].prefs)
           /\ saves' = [saves EXCEPT ![k].written = TRUE]
    /\ UNCHANGED <<build, config, prefs>>
    /\ UNCHANGED previewVars
    /\ UNCHANGED <<served, head, body, pagePrefs, threw, pc, passes, request, detached>>
    /\ UNCHANGED heapVars
    /\ UNCHANGED <<popup, inbox, trigger>>

\* savePrefs that sends the message without waiting for the write.
SendMessageBeforeWrite(k) ==
    /\ ~saves[k].sent
    /\ saves' = [saves EXCEPT ![k].sent = TRUE]
    /\ inbox' = Append(inbox, [message |-> updateStyles(saves[k].prefs), save |-> k])
    /\ UNCHANGED <<build, config, prefs>>
    /\ UNCHANGED previewVars
    /\ UNCHANGED pageVars
    /\ UNCHANGED heapVars
    /\ UNCHANGED <<popup, trigger>>

\* The callback of set and, in it, that of chrome.tabs.query: the message
\* of the k-th save is sent to the tab.
SendMessage(k) ==
    /\ saves[k].written
    /\ ~saves[k].sent
    /\ saves' = [saves EXCEPT ![k].sent = TRUE]
    /\ inbox' = Append(inbox, [message |-> updateStyles(saves[k].prefs), save |-> k])
    /\ UNCHANGED <<build, config, prefs>>
    /\ UNCHANGED previewVars
    /\ UNCHANGED pageVars
    /\ UNCHANGED heapVars
    /\ UNCHANGED <<popup, trigger>>

\* The onMessage listener of a content script that has started:
\* location.reload().
ReceiveMessage ==
    /\ inbox # <<>>
    /\ pc # "loading"
    /\ request' = Head(inbox).message
    /\ trigger' = Head(inbox).save
    /\ inbox' = Tail(inbox)
    /\ body' = served
    /\ head' = <<>>
    /\ pagePrefs' = config.user_preferences
    /\ threw' = FALSE
    /\ passes' = 0
    /\ pc' = "loading"
    /\ UNCHANGED <<build, config, prefs, storage, served, detached>>
    /\ UNCHANGED previewVars
    /\ UNCHANGED heapVars
    /\ UNCHANGED <<popup, saves>>

\* A message that reaches the tab while the page loads finds no listener.
MessageLost ==
    /\ inbox # <<>>
    /\ pc = "loading"
    /\ inbox' = Tail(inbox)
    /\ UNCHANGED <<build, config, prefs>>
    /\ UNCHANGED previewVars
    /\ UNCHANGED pageVars
    /\ UNCHANGED heapVars
    /\ UNCHANGED <<popup, saves, trigger>>

\* The page has loaded: the content script runs from its start and adds
\* its listener.
ScriptStarts ==
    /\ pc = "loading"
    /\ pc' = "start"
    /\ UNCHANGED <<build, config, prefs, storage, served, head, body, pagePrefs, threw, passes,
                   request, detached>>
    /\ UNCHANGED previewVars
    /\ UNCHANGED heapVars
    /\ UNCHANGED extVars

ExtNext ==
    \/ PopupGetCallback
    \/ SavePrefs
    \/ WriteCompletes
    \/ \E k \in 1..Len(saves) : SendMessage(k)
    \/ ReceiveMessage
    \/ MessageLost
    \/ ScriptStarts
    \/ FetchConfig
    \/ FetchFails
    \/ StorageGetCallback

ExtSpec == ExtInit /\ [][ExtNext]_vars

\* C23: a message is on its way only when the write of its prefs is done;
\* so when the content script has reloaded for a message and has run again,
\* the prefs it has read are those of that save or of a later one that is
\* written; and once every save is written and sent and no message is on
\* its way, the page is styled with the prefs of the last save.
C23_WriteBeforeNotify ==
    /\ \A i \in 1..Len(inbox) : saves[inbox[i].save].written
    /\ (pc = "done" /\ trigger > 0) =>
           \E k \in trigger..Len(saves) :
               /\ saves[k].written
               /\ pagePrefs = saves[k].prefs
    /\ (/\ pc = "done"
        /\ trigger > 0
        /\ inbox = <<>>
        /\ \A k \in 1..Len(saves) : saves[k].sent) =>
           /\ pagePrefs = saves[Len(saves)].prefs
           /\ head = <<[id |-> "focusmate-injected-styles",
                        textContent |-> styleTextOf(saves[Len(saves)].prefs, config)]>>

\* Two saves with different prefs; the page has reloaded for the second
\* and carries its prefs.
C23_Witness ==
    /\ pc = "done"
    /\ Len(saves) = 2
    /\ \A k \in 1..Len(saves) : saves[k].sent
    /\ inbox = <<>>
    /\ trigger = 2
    /\ saves[1].prefs # saves[2].prefs
    /\ pagePrefs = saves[2].prefs
    /\ pagePrefs # config.user_preferences

\* C24: the popup's controls work as soon as the configuration is set, so
\* savePrefs can run before the callback of chrome.storage.sync.get; for
\* every interleaving of edits with that callback, once the callback has run
\* and every write is done, the popup's prefs state equals the prefs in
\* storage.
C24_PopupLoadEditRace ==
    (/\ popup.at = "ready"
     /\ storage.defined
     /\ \A k \in 1..Len(saves) : saves[k].written) =>
        prefs = storage.value

\* The race of C24: an edit made while the stored prefs are still on their
\* way, then the callback, then the write of the edit.
C24_EditBeforeCallback ==
    /\ popup.at = "ready"
    /\ Len(saves) = 1
    /\ saves[1].written
    /\ storage = Stored(saves[1].prefs)
    /\ prefs # saves[1].prefs
    /\ prefs = IF popup.result.defined THEN popup.result.value
               ELSE config.user_preferences

====
